---- MODULE Spec2Model ----
(***************************************************************************)
(* A model of the two boot plugins of weresync:                            *)
(*   GrubPlugin.install_bootloader  (plugins/weresync_grub2.py)            *)
(*   UUIDPlugin.install_bootloader  (plugins/weresync_uuid_copy.py)        *)
(* One behaviour is one invocation of install_bootloader.  The target      *)
(* device (copier.target), the file system and the installer process are   *)
(* the environment: each call to them that can fail is a nondeterministic  *)
(* choice between its outcomes.                                            *)
(***************************************************************************)
EXTENDS Integers, Sequences, FiniteSets, TLC

\* ------------------------------------------------------------------ bounds
\* Largest number of partitions copier.target.get_partitions() returns.
MaxParts == 3

\* ---------------------------------------------------------------- values
\* Python's None, for a partition argument.
None == 0

\* mount_point() returning None: the partition is not mounted.
NoMount == <<>>

\* The target_mnt argument, a path without trailing separator.
target_mnt == <<"/mnt">>

\* copier.target.device, the device's name.
Device == "/dev/sdb"

\* Where partition i is mounted when it is mounted before the call, written
\* with or without a trailing separator.  Paths are sequences of tokens; the
\* separator "/" is a token of its own, so that endswith("/") is a test of
\* the last token.
PreMount(i, slash) ==
    IF slash THEN <<"/media/" \o ToString(i), "/">> ELSE <<"/media/" \o ToString(i)>>

\* The set-user-ID bit of a file mode (04000), which a write to the file
\* can clear.
S_ISUID == 2048

\* Permission bits of grub.cfg before the call: rw-r--r-- with the
\* set-user-ID bit, a mode the rewrite can disturb.
InitialPerms == 420 + S_ISUID

\* The file type bits of a regular file in st_mode.
S_IFREG == 32768

\* The bits of a mode that chmod applies (07777).
PermBits(mode) == mode % 4096

Plugins == {"grub", "uuid"}

VARIABLES
    plugin,             \* which plugin's install_bootloader runs
    parts,              \* copier.target.get_partitions(), in order
    mnt,                \* partition -> its mount point, NoMount if none
    mnt0,               \* mnt when the invocation began
    hasMarker,          \* partition -> its file system holds the marker path
    root_arg,           \* the root_partition argument as passed
    root_partition,     \* the local root_partition (assigned by the scan)
    boot_partition,
    efi_partition,
    pc,                 \* position in install_bootloader
    idx,                \* position of the scan loop in parts
    mount_point,        \* local mount_point of the scan loop
    mount_loc,          \* local mount_loc
    mounted_here,
    boot_mounted_here,
    efi_mounted_here,
    breaking,           \* the UUID scan left the try block by break
    cleanup_pos,        \* position in the finally block of GrubPlugin
    exc,                \* the exception in flight
    result,             \* outcome of the invocation
    log,                \* calls made on copier.target and the file system
    translated,         \* calls of plugins.translate_uuid
    perms,              \* permission bits of grub.cfg
    old_perms,
    cfg,                \* content of grub.cfg
    grub_command,       \* the installer's command line
    install_output,     \* bytes captured from the installer's stdout/stderr
    installs            \* number of installer processes started

vars == <<plugin, parts, mnt, mnt0, hasMarker, root_arg, root_partition,
          boot_partition, efi_partition, pc, idx, mount_point, mount_loc,
          mounted_here, boot_mounted_here, efi_mounted_here, breaking,
          cleanup_pos, exc, result, log, translated, perms, old_perms, cfg,
          grub_command, install_output, installs>>

\* ------------------------------------------------------------- exceptions
NoExc == [type |-> "None", at |-> "", device |-> "", detail |-> <<>>]

\* An exception of the given type raised at step at; DeviceError and
\* CopyError are built with copier.target.device.
Raise(type, at, detail) ==
    [type |-> type, at |-> at,
     device |-> IF type \in {"DeviceError", "CopyError"} THEN Device ELSE "",
     detail |-> detail]

\* ------------------------------------------------- the target device
\* copier.target.mount_partition(i, path): mounts, or raises DeviceError.
MountResults(m, i, path) ==
    {[ok |-> TRUE, mnt |-> [m EXCEPT ![i] = path]], [ok |-> FALSE, mnt |-> m]}

\* copier.target.unmount_partition(i): unmounts, or raises DeviceError.
UnmountResults(m, i) ==
    IF m[i] = NoMount
    THEN {[ok |-> FALSE, mnt |-> m]}
    ELSE {[ok |-> TRUE, mnt |-> [m EXCEPT ![i] = NoMount]],
          [ok |-> FALSE, mnt |-> m]}

\* plugins.translate_uuid(copier, partition, path, target_mnt): translates
\* the files under path of the partition, or raises DeviceError.
TranslateResults == {TRUE, FALSE}

\* The attributes an IBootPlugin object has after construction.
PluginAttrs == {"name", "prettyName"}

\* ----------------------------------------------------------------- paths
Last(p) == p[Len(p)]

\* p + ("/" if not p.endswith("/") else "")
WithSlash(p) == IF Last(p) = "/" THEN p ELSE Append(p, "/")

\* The marker the scan of each plugin looks for.
Marker(pl) == IF pl = "grub" THEN "boot/grub" ELSE "boot"

\* os.path.exists(path) for a marker path: some mounted partition holding
\* the marker is mounted right above it.
PathExists(path) ==
    \E p \in DOMAIN mnt :
        /\ mnt[p] # NoMount
        /\ hasMarker[p]
        /\ path = WithSlash(mnt[p]) \o <<Marker(plugin)>>

Event(op, part, phase, ok) ==
    [op |-> op, part |-> part, phase |-> phase, ok |-> ok]

\* ------------------------------------------------------------------ Init
PartSet == 1..MaxParts

Init ==
    /\ plugin \in Plugins
    /\ \E n \in 0..MaxParts : parts = [k \in 1..n |-> k]
    /\ \E slash \in BOOLEAN :
          mnt \in [PartSet -> {NoMount} \cup {PreMount(i, slash) : i \in PartSet}]
    /\ \A i \in PartSet :
          /\ mnt[i] # NoMount => mnt[i][1] = PreMount(i, FALSE)[1]
          /\ i > Len(parts) => mnt[i] = NoMount
    /\ mnt0 = mnt
    /\ hasMarker \in [PartSet -> BOOLEAN]
    /\ \A i \in PartSet : i > Len(parts) => ~hasMarker[i]
    /\ root_arg \in {None} \cup (1..Len(parts))
    /\ root_partition = root_arg
    /\ boot_partition \in {None} \cup (1..Len(parts))
    /\ efi_partition \in {None} \cup (1..Len(parts))
    /\ boot_partition # None => boot_partition \notin {root_arg, efi_partition}
    /\ efi_partition # None => efi_partition # root_arg
    \* Only the scan reads hasMarker: without a scan one value stands for all.
    /\ (root_arg # None \/ (plugin = "uuid" /\ boot_partition # None))
          => \A i \in PartSet : ~hasMarker[i]
    /\ pc = "start"
    /\ idx = 0
    /\ mount_point = NoMount
    /\ mount_loc = NoMount
    /\ mounted_here = FALSE
    /\ boot_mounted_here = FALSE
    /\ efi_mounted_here = FALSE
    /\ breaking = FALSE
    /\ cleanup_pos = 0
    /\ exc = NoExc
    /\ result = "running"
    /\ log = <<>>
    /\ translated = <<>>
    /\ perms = InitialPerms
    /\ old_perms = 0
    /\ cfg = "source"
    /\ grub_command = <<>>
    /\ install_output = <<>>
    /\ installs = 0

\* Groups of variables, for UNCHANGED.
inputs == <<plugin, parts, mnt0, hasMarker, root_arg, boot_partition,
            efi_partition>>

fileVars == <<perms, old_perms, cfg, grub_command, install_output, installs>>

uuidVars == <<translated, breaking>>

flags == <<mounted_here, boot_mounted_here, efi_mounted_here>>

\* ============================================================ GrubPlugin
\* Mutant of CleanupOrder: the mounts released in the order they were made.
CleanupOrderAsMounted == <<"root", "boot", "efi">>

\* The order in which the finally block releases the mounts.
CleanupOrder == <<"efi", "boot", "root">>

\* An exception raised inside the try block: control passes to the finally
\* block with the exception in flight.
ToCleanup(e) ==
    /\ exc' = e
    /\ pc' = "cleanup"
    /\ cleanup_pos' = 1

\* if root_partition is None: the scan; otherwise straight to the try block.
GrubBegin ==
    /\ pc = "start"
    /\ plugin = "grub"
    /\ IF root_partition = None
       THEN pc' = "scan" /\ idx' = 1
       ELSE pc' = "mount_root" /\ idx' = idx
    /\ UNCHANGED <<inputs, mnt, root_partition, mount_point, mount_loc, flags,
                   cleanup_pos, exc, result, log, fileVars, uuidVars>>

\* Mutant of GrubScanMount: the DeviceError of mount_partition is not caught.
GrubScanMountPropagates ==
    /\ pc = "scan"
    /\ plugin = "grub"
    /\ idx <= Len(parts)
    /\ LET i == parts[idx] IN
       IF mnt[i] = NoMount
       THEN \E r \in MountResults(mnt, i, target_mnt) :
              /\ mnt' = r.mnt
              /\ log' = Append(log, Event("mount", i, "scan", r.ok))
              /\ IF r.ok
                 THEN /\ mount_point' = target_mnt
                      /\ pc' = "probe"
                      /\ UNCHANGED <<idx, exc, result>>
                 ELSE /\ mount_point' = mount_point
                      /\ pc' = "done"
                      /\ result' = "raised"
                      /\ exc' = Raise("DeviceError", "scan", <<>>)
                      /\ idx' = idx
       ELSE /\ mount_point' = mnt[i]
            /\ pc' = "probe"
            /\ UNCHANGED <<mnt, log, idx, exc, result>>
    /\ UNCHANGED <<inputs, root_partition, mount_loc, flags, cleanup_pos,
                   fileVars, uuidVars>>

\* The head of the scan's loop body: mount_point(i), mount if it is None.
\* A DeviceError of mount_partition is caught and the loop goes on.
GrubScanMount ==
    /\ pc = "scan"
    /\ plugin = "grub"
    /\ idx <= Len(parts)
    /\ LET i == parts[idx] IN
       IF mnt[i] = NoMount
       THEN \E r \in MountResults(mnt, i, target_mnt) :
              /\ mnt' = r.mnt
              /\ log' = Append(log, Event("mount", i, "scan", r.ok))
              /\ IF r.ok
                 THEN /\ mount_point' = target_mnt
                      /\ pc' = "probe"
                      /\ idx' = idx
                 ELSE /\ mount_point' = mount_point
                      /\ pc' = "scan"
                      /\ idx' = idx + 1
       ELSE /\ mount_point' = mnt[i]
            /\ pc' = "probe"
            /\ UNCHANGED <<mnt, log, idx>>
    /\ UNCHANGED <<inputs, root_partition, mount_loc, flags, cleanup_pos, exc,
                   result, fileVars, uuidVars>>

\* Mutant of GrubScanProbe: a candidate without boot/grub is left mounted.
GrubScanProbeKeepsMounted ==
    /\ pc = "probe"
    /\ plugin = "grub"
    /\ LET i == parts[idx]
           found == PathExists(WithSlash(mount_point) \o <<"boot/grub">>)
       IN
       /\ log' = Append(log, Event("exists", i, "scan", found))
       /\ IF found
          THEN /\ root_partition' = i
               /\ pc' = "mount_root"
               /\ idx' = idx
          ELSE /\ idx' = idx + 1
               /\ pc' = "scan"
               /\ UNCHANGED root_partition
    /\ UNCHANGED <<inputs, mnt, mount_point, mount_loc, flags, cleanup_pos,
                   exc, result, fileVars, uuidVars>>

\* The test for boot/grub: on a match root_partition = i and break; otherwise
\* unmount_partition(i), whose DeviceError is caught like the mount's.
GrubScanProbe ==
    /\ pc = "probe"
    /\ plugin = "grub"
    /\ LET i == parts[idx]
           found == PathExists(WithSlash(mount_point) \o <<"boot/grub">>)
       IN
       IF found
       THEN /\ root_partition' = i
            /\ pc' = "mount_root"
            /\ log' = Append(log, Event("exists", i, "scan", TRUE))
            /\ UNCHANGED <<mnt, idx>>
       ELSE \E r \in UnmountResults(mnt, i) :
              /\ mnt' = r.mnt
              /\ log' = log \o <<Event("exists", i, "scan", FALSE),
                                 Event("unmount", i, "scan", r.ok)>>
              /\ idx' = idx + 1
              /\ pc' = "scan"
              /\ UNCHANGED root_partition
    /\ UNCHANGED <<inputs, mount_point, mount_loc, flags, cleanup_pos, exc,
                   result, fileVars, uuidVars>>

\* Mutant of GrubScanExhausted: the loop has no else branch and the method
\* returns when no partition was found.
GrubScanExhaustedReturns ==
    /\ pc = "scan"
    /\ plugin = "grub"
    /\ idx > Len(parts)
    /\ pc' = "done"
    /\ result' = "returned"
    /\ UNCHANGED <<inputs, mnt, root_partition, idx, mount_point, mount_loc,
                   flags, cleanup_pos, exc, log, fileVars, uuidVars>>

\* The loop's else branch: no partition found, CopyError.
GrubScanExhausted ==
    /\ pc = "scan"
    /\ plugin = "grub"
    /\ idx > Len(parts)
    /\ pc' = "done"
    /\ result' = "raised"
    /\ exc' = Raise("CopyError", "scan", <<>>)
    /\ UNCHANGED <<inputs, mnt, root_partition, idx, mount_point, mount_loc,
                   flags, cleanup_pos, log, fileVars, uuidVars>>

\* mount_loc = mount_point(root_partition); mount at target_mnt if None;
\* then the trailing separator.
GrubMountRoot ==
    /\ pc = "mount_root"
    /\ IF mnt[root_partition] = NoMount
       THEN \E r \in MountResults(mnt, root_partition, target_mnt) :
              /\ mnt' = r.mnt
              /\ log' = Append(log, Event("mount", root_partition, "root", r.ok))
              /\ IF r.ok
                 THEN /\ mounted_here' = TRUE
                      /\ mount_loc' = WithSlash(target_mnt)
                      /\ pc' = "mount_boot"
                      /\ UNCHANGED <<exc, cleanup_pos>>
                 ELSE /\ ToCleanup(Raise("DeviceError", "mount_root", <<>>))
                      /\ UNCHANGED <<mounted_here, mount_loc>>
       ELSE /\ mount_loc' = WithSlash(mnt[root_partition])
            /\ pc' = "mount_boot"
            /\ UNCHANGED <<mnt, log, mounted_here, exc, cleanup_pos>>
    /\ UNCHANGED <<inputs, root_partition, idx, mount_point, boot_mounted_here,
                   efi_mounted_here, result, fileVars, uuidVars>>

\* if boot_partition is not None: mount it at mount_loc + "boot".
GrubMountBoot ==
    /\ pc = "mount_boot"
    /\ IF boot_partition # None
       THEN \E r \in MountResults(mnt, boot_partition, mount_loc \o <<"boot">>) :
              /\ mnt' = r.mnt
              /\ log' = Append(log, Event("mount", boot_partition, "boot", r.ok))
              /\ IF r.ok
                 THEN /\ boot_mounted_here' = TRUE
                      /\ pc' = "mount_efi"
                      /\ UNCHANGED <<exc, cleanup_pos>>
                 ELSE /\ ToCleanup(Raise("DeviceError", "mount_boot", <<>>))
                      /\ UNCHANGED boot_mounted_here
       ELSE /\ pc' = "mount_efi"
            /\ UNCHANGED <<mnt, log, boot_mounted_here, exc, cleanup_pos>>
    /\ UNCHANGED <<inputs, root_partition, idx, mount_point, mount_loc,
                   mounted_here, efi_mounted_here, result, fileVars, uuidVars>>

\* if efi_partition is not None: makedirs, then mount at mount_loc + "boot/efi".
GrubMountEfi ==
    /\ pc = "mount_efi"
    /\ IF efi_partition # None
       THEN \/ /\ ToCleanup(Raise("OSError", "makedirs", <<>>))
               /\ log' = Append(log, Event("makedirs", None, "efi", FALSE))
               /\ UNCHANGED <<mnt, efi_mounted_here>>
            \/ \E r \in MountResults(mnt, efi_partition,
                                     mount_loc \o <<"boot/efi">>) :
                 /\ mnt' = r.mnt
                 /\ log' = log \o <<Event("makedirs", None, "efi", TRUE),
                                    Event("mount", efi_partition, "efi", r.ok)>>
                 /\ IF r.ok
                    THEN /\ efi_mounted_here' = TRUE
                         /\ pc' = "stat"
                         /\ UNCHANGED <<exc, cleanup_pos>>
                    ELSE /\ ToCleanup(Raise("DeviceError", "mount_efi", <<>>))
                         /\ UNCHANGED efi_mounted_here
       ELSE /\ pc' = "stat"
            /\ UNCHANGED <<mnt, log, efi_mounted_here, exc, cleanup_pos>>
    /\ UNCHANGED <<inputs, root_partition, idx, mount_point, mount_loc,
                   mounted_here, boot_mounted_here, result, fileVars, uuidVars>>

\* os.stat(grub_cfg)[0]: st_mode, the file type bits with the permission
\* bits, or OSError (no such file).
GrubStat ==
    /\ pc = "stat"
    /\ \/ /\ old_perms' = S_IFREG + perms
          /\ pc' = "rewrite"
          /\ log' = Append(log, Event("stat", None, "config", TRUE))
          /\ UNCHANGED <<exc, cleanup_pos>>
       \/ /\ ToCleanup(Raise("OSError", "stat", <<>>))
          /\ log' = Append(log, Event("stat", None, "config", FALSE))
          /\ UNCHANGED old_perms
    /\ UNCHANGED <<inputs, mnt, root_partition, idx, mount_point, mount_loc,
                   flags, result, perms, cfg, grub_command, install_output,
                   installs, uuidVars>>

\* What open/read/multireplace/seek/write/truncate/flush leave of grub.cfg:
\* the translated text, or on an I/O error the text as it was (the error came
\* before the write) or a partly written text.  A write may clear the
\* set-user-ID bit of the file.
RewriteResults ==
    {[ok |-> TRUE, cfg |-> "translated", perms |-> perms],
     [ok |-> TRUE, cfg |-> "translated", perms |-> perms % S_ISUID],
     [ok |-> FALSE, cfg |-> cfg, perms |-> perms],
     [ok |-> FALSE, cfg |-> "partial", perms |-> perms],
     [ok |-> FALSE, cfg |-> "partial", perms |-> perms % S_ISUID]}

\* Mutant of GrubRewrite: an error of the rewrite is swallowed and the
\* installer runs on the file as the error left it.
GrubRewriteIgnoresError ==
    /\ pc = "rewrite"
    /\ \E r \in RewriteResults :
         /\ cfg' = r.cfg
         /\ perms' = PermBits(old_perms)
         /\ log' = Append(log, Event("rewrite", None, "config", r.ok))
         /\ pc' = "install"
         /\ UNCHANGED <<exc, cleanup_pos>>
    /\ UNCHANGED <<inputs, mnt, root_partition, idx, mount_point, mount_loc,
                   flags, result, old_perms, grub_command, install_output,
                   installs, uuidVars>>

\* Mutant of GrubRewrite: os.chmod after the with block, not in a finally.
GrubRewriteNoFinally ==
    /\ pc = "rewrite"
    /\ \E r \in RewriteResults :
         /\ cfg' = r.cfg
         /\ perms' = IF r.ok THEN PermBits(old_perms) ELSE r.perms
         /\ log' = Append(log, Event("rewrite", None, "config", r.ok))
         /\ IF r.ok
            THEN pc' = "install" /\ UNCHANGED <<exc, cleanup_pos>>
            ELSE ToCleanup(Raise("OSError", "rewrite", <<>>))
    /\ UNCHANGED <<inputs, mnt, root_partition, idx, mount_point, mount_loc,
                   flags, result, old_perms, grub_command, install_output,
                   installs, uuidVars>>

\* The rewrite of grub.cfg with its finally: os.chmod(grub_cfg, old_perms),
\* which runs after the with block and after an error in it.
GrubRewrite ==
    /\ pc = "rewrite"
    /\ \E r \in RewriteResults :
         /\ cfg' = r.cfg
         /\ perms' = PermBits(old_perms)
         /\ log' = Append(log, Event("rewrite", None, "config", r.ok))
         /\ IF r.ok
            THEN pc' = "install" /\ UNCHANGED <<exc, cleanup_pos>>
            ELSE ToCleanup(Raise("OSError", "rewrite", <<>>))
    /\ UNCHANGED <<inputs, mnt, root_partition, idx, mount_point, mount_loc,
                   flags, result, old_perms, grub_command, install_output,
                   installs, uuidVars>>

\* Mutant of GrubCommand: the device is passed with the EFI flags as well.
GrubCommandAlwaysDevice ==
    <<<<"grub-install">>, <<"--boot-directory=">> \o mount_loc \o <<"boot">>,
      <<"--recheck">>>> \o
    (IF efi_partition # None
     THEN <<<<"--efi-directory=">> \o mount_loc \o <<"boot/efi">>,
            <<"--target=x86_64-efi">>, <<"--removable">>, <<Device>>>>
     ELSE <<<<"--target=i386-pc">>, <<Device>>>>)

\* The command line of the installer.
GrubCommand ==
    <<<<"grub-install">>, <<"--boot-directory=">> \o mount_loc \o <<"boot">>,
      <<"--recheck">>>> \o
    (IF efi_partition # None
     THEN <<<<"--efi-directory=">> \o mount_loc \o <<"boot/efi">>,
            <<"--target=x86_64-efi">>, <<"--removable">>>>
     ELSE <<<<"--target=i386-pc">>, <<Device>>>>)

\* The installer process: its return code and the bytes communicate()
\* captured from stdout with stderr merged into it.  The bytes are ASCII and
\* two-byte UTF-8 text, or end in the middle of a two-byte character.
InstallResults ==
    {[returncode |-> 0, output |-> <<111, 107, 195>>],
     [returncode |-> 1, output |-> <<101, 114, 114, 195, 169>>],
     [returncode |-> 1, output |-> <<101, 114, 114, 195>>]}

\* str(b, "utf-8") on bytes of one- and two-byte characters: the code points
\* when b is well-formed UTF-8, otherwise UnicodeDecodeError (ok = FALSE).
RECURSIVE Utf8Valid(_)
Utf8Valid(b) ==
    IF b = <<>> THEN TRUE
    ELSE IF b[1] < 128 THEN Utf8Valid(Tail(b))
    ELSE IF b[1] \in 194..223 /\ Len(b) >= 2 /\ b[2] \in 128..191
         THEN Utf8Valid(Tail(Tail(b)))
    ELSE FALSE

RECURSIVE Utf8Text(_)
Utf8Text(b) ==
    IF b = <<>> THEN <<>>
    ELSE IF b[1] < 128 THEN <<b[1]>> \o Utf8Text(Tail(b))
    ELSE <<(b[1] - 192) * 64 + (b[2] - 128)>> \o Utf8Text(Tail(Tail(b)))

Decode(b) ==
    IF Utf8Valid(b) THEN [ok |-> TRUE, text |-> Utf8Text(b)]
    ELSE [ok |-> FALSE, text |-> <<>>]

\* Popen(grub_command), communicate(), and on a non-zero return code
\* DeviceError(copier.target.device, "Error installing grub.",
\* str(install_output, "utf-8")).
GrubInstall ==
    /\ pc = "install"
    /\ grub_command' = GrubCommand
    /\ installs' = installs + 1
    /\ \E r \in InstallResults :
         /\ install_output' = r.output
         /\ log' = Append(log, Event("install", None, "install",
                                     r.returncode = 0))
         /\ IF r.returncode # 0
            THEN IF Decode(r.output).ok
                 THEN ToCleanup(Raise("DeviceError", "install",
                                      Decode(r.output).text))
                 ELSE ToCleanup(Raise("UnicodeDecodeError", "install", <<>>))
            ELSE /\ pc' = "cleanup"
                 /\ cleanup_pos' = 1
                 /\ UNCHANGED exc
    /\ UNCHANGED <<inputs, mnt, root_partition, idx, mount_point, mount_loc,
                   flags, result, perms, old_perms, cfg, uuidVars>>

\* The flag and the partition of one entry of the finally block.
CleanupFlag(which) ==
    CASE which = "efi" -> efi_mounted_here
      [] which = "boot" -> boot_mounted_here
      [] which = "root" -> mounted_here

CleanupPartition(which) ==
    CASE which = "efi" -> efi_partition
      [] which = "boot" -> boot_partition
      [] which = "root" -> root_partition

\* One statement of the finally block: if <flag>: unmount_partition(<part>).
\* Nothing catches a DeviceError of the unmount: it leaves the finally block
\* at once and replaces the exception in flight.
GrubCleanup ==
    /\ pc = "cleanup"
    /\ cleanup_pos \in 1..Len(CleanupOrder)
    /\ LET which == CleanupOrder[cleanup_pos]
           last == cleanup_pos = Len(CleanupOrder)
       IN
       IF CleanupFlag(which)
       THEN \E r \in UnmountResults(mnt, CleanupPartition(which)) :
              /\ mnt' = r.mnt
              /\ log' = Append(log, Event("unmount", CleanupPartition(which),
                                          which, r.ok))
              /\ IF r.ok
                 THEN /\ cleanup_pos' = cleanup_pos + 1
                      /\ pc' = IF last THEN "finish" ELSE "cleanup"
                      /\ UNCHANGED <<exc, result>>
                 ELSE /\ exc' = Raise("DeviceError", "unmount_" \o which, <<>>)
                      /\ result' = "raised"
                      /\ pc' = "done"
                      /\ UNCHANGED cleanup_pos
       ELSE /\ cleanup_pos' = cleanup_pos + 1
            /\ pc' = IF last THEN "finish" ELSE "cleanup"
            /\ UNCHANGED <<mnt, log, exc, result>>
    /\ UNCHANGED <<inputs, root_partition, idx, mount_point, mount_loc, flags,
                   fileVars, uuidVars>>

\* After the finally block: the exception in flight reaches the caller, or
\* the method returns.
GrubFinish ==
    /\ pc = "finish"
    /\ plugin = "grub"
    /\ pc' = "done"
    /\ result' = IF exc = NoExc THEN "returned" ELSE "raised"
    /\ UNCHANGED <<inputs, mnt, root_partition, idx, mount_point, mount_loc,
                   flags, cleanup_pos, exc, log, fileVars, uuidVars>>

\* ============================================================ UUIDPlugin
Translation(part, path) == [part |-> part, path |-> path]

\* The exception of the method ending at once.
Propagate(e) ==
    /\ exc' = e
    /\ result' = "raised"
    /\ pc' = "done"

\* Mutant of UuidBegin: the root_partition hint is tested before the
\* boot_partition hint.
UuidBeginRootFirst ==
    /\ pc = "start"
    /\ plugin = "uuid"
    /\ IF root_partition = None /\ boot_partition = None
       THEN pc' = "scan" /\ idx' = 1
       ELSE IF root_partition # None
            THEN pc' = "translate_root" /\ idx' = idx
            ELSE pc' = "translate_boot" /\ idx' = idx
    /\ UNCHANGED <<inputs, mnt, root_partition, mount_point, mount_loc, flags,
                   cleanup_pos, exc, result, log, fileVars, uuidVars>>

\* if root_partition is None and boot_partition is None: the scan;
\* elif boot_partition is not None: ...; else: ...
UuidBegin ==
    /\ pc = "start"
    /\ plugin = "uuid"
    /\ IF root_partition = None /\ boot_partition = None
       THEN pc' = "scan" /\ idx' = 1
       ELSE IF boot_partition # None
            THEN pc' = "translate_boot" /\ idx' = idx
            ELSE pc' = "translate_root" /\ idx' = idx
    /\ UNCHANGED <<inputs, mnt, root_partition, mount_point, mount_loc, flags,
                   cleanup_pos, exc, result, log, fileVars, uuidVars>>

\* The head of the loop body: mounted_here = False, mount_point(i), mount if
\* it is None.  A DeviceError of the mount goes to the except clause and then
\* to the finally clause, with mounted_here still False.
UuidScanMount ==
    /\ pc = "scan"
    /\ plugin = "uuid"
    /\ idx <= Len(parts)
    /\ breaking' = FALSE
    /\ LET i == parts[idx] IN
       IF mnt[i] = NoMount
       THEN \E r \in MountResults(mnt, i, target_mnt) :
              /\ mnt' = r.mnt
              /\ log' = Append(log, Event("mount", i, "scan", r.ok))
              /\ IF r.ok
                 THEN /\ mount_point' = target_mnt
                      /\ mounted_here' = TRUE
                      /\ pc' = "probe"
                 ELSE /\ mount_point' = mount_point
                      /\ mounted_here' = FALSE
                      /\ pc' = "scan_finally"
       ELSE /\ mount_point' = mnt[i]
            /\ mounted_here' = FALSE
            /\ pc' = "probe"
            /\ UNCHANGED <<mnt, log>>
    /\ UNCHANGED <<inputs, root_partition, idx, mount_loc, boot_mounted_here,
                   efi_mounted_here, cleanup_pos, exc, result, fileVars,
                   translated>>

\* The test for boot: on a match root_partition = i, translate_uuid and
\* break; a DeviceError of translate_uuid goes to the except clause.
UuidScanProbe ==
    /\ pc = "probe"
    /\ plugin = "uuid"
    /\ LET i == parts[idx]
           found == PathExists(WithSlash(mount_point) \o <<"boot">>)
       IN
       /\ IF found
          THEN /\ root_partition' = i
               /\ translated' = Append(translated, Translation(i, "/boot"))
               /\ \E ok \in TranslateResults :
                    /\ breaking' = ok
                    /\ log' = log \o <<Event("exists", i, "scan", TRUE),
                                       Event("translate", i, "scan", ok)>>
          ELSE /\ log' = Append(log, Event("exists", i, "scan", FALSE))
               /\ UNCHANGED <<root_partition, translated, breaking>>
    /\ pc' = "scan_finally"
    /\ UNCHANGED <<inputs, mnt, idx, mount_point, mount_loc, flags,
                   cleanup_pos, exc, result, fileVars>>

\* The finally clause of the loop body: if mounted_here:
\* self.target.unmount_partition(i), inside try/except DeviceError.  A plugin
\* object without the attribute target raises AttributeError there, which
\* the except clause does not catch.
UuidScanFinally ==
    /\ pc = "scan_finally"
    /\ LET i == parts[idx] IN
       IF mounted_here /\ "target" \notin PluginAttrs
       THEN /\ Propagate(Raise("AttributeError", "scan_finally", <<>>))
            /\ UNCHANGED <<mnt, log, idx>>
       ELSE /\ IF mounted_here
               THEN \E r \in UnmountResults(mnt, i) :
                      /\ mnt' = r.mnt
                      /\ log' = Append(log, Event("unmount", i, "scan", r.ok))
               ELSE UNCHANGED <<mnt, log>>
            /\ IF breaking
               THEN pc' = "translate_efi" /\ idx' = idx
               ELSE pc' = "scan" /\ idx' = idx + 1
            /\ UNCHANGED <<exc, result>>
    /\ UNCHANGED <<inputs, root_partition, mount_point, mount_loc, flags,
                   cleanup_pos, fileVars, uuidVars>>

\* The loop's else branch: no partition found, CopyError.
UuidScanExhausted ==
    /\ pc = "scan"
    /\ plugin = "uuid"
    /\ idx > Len(parts)
    /\ Propagate(Raise("CopyError", "scan", <<>>))
    /\ UNCHANGED <<inputs, mnt, root_partition, idx, mount_point, mount_loc,
                   flags, cleanup_pos, log, fileVars, uuidVars>>

\* One call of translate_uuid outside the loop: on success control goes to
\* next, a DeviceError reaches the caller.
TranslateCall(part, path, at, next) ==
    /\ translated' = Append(translated, Translation(part, path))
    /\ \E ok \in TranslateResults :
         /\ log' = Append(log, Event("translate", part, at, ok))
         /\ IF ok
            THEN pc' = next /\ UNCHANGED <<exc, result>>
            ELSE Propagate(Raise("DeviceError", at, <<>>))
    /\ UNCHANGED <<inputs, mnt, root_partition, idx, mount_point, mount_loc,
                   flags, cleanup_pos, fileVars, breaking>>

\* Mutant of UuidTranslateBoot: the EFI translation is not reached from the
\* boot_partition branch.
UuidTranslateBootSkipsEfi ==
    /\ pc = "translate_boot"
    /\ TranslateCall(boot_partition, "/", "translate_boot", "finish")

\* elif boot_partition is not None: translate_uuid(boot_partition, "/")
UuidTranslateBoot ==
    /\ pc = "translate_boot"
    /\ TranslateCall(boot_partition, "/", "translate_boot", "translate_efi")

\* else: translate_uuid(root_partition, "/boot")
UuidTranslateRoot ==
    /\ pc = "translate_root"
    /\ TranslateCall(root_partition, "/boot", "translate_root", "translate_efi")

\* if efi_partition is not None: translate_uuid(efi_partition, "/")
UuidTranslateEfi ==
    /\ pc = "translate_efi"
    /\ efi_partition # None
    /\ TranslateCall(efi_partition, "/", "translate_efi", "finish")

UuidSkipEfi ==
    /\ pc = "translate_efi"
    /\ efi_partition = None
    /\ pc' = "finish"
    /\ UNCHANGED <<inputs, mnt, root_partition, idx, mount_point, mount_loc,
                   flags, cleanup_pos, exc, result, log, fileVars, uuidVars>>

\* The method returns.
UuidFinish ==
    /\ pc = "finish"
    /\ plugin = "uuid"
    /\ pc' = "done"
    /\ result' = "returned"
    /\ UNCHANGED <<inputs, mnt, root_partition, idx, mount_point, mount_loc,
                   flags, cleanup_pos, exc, log, fileVars, uuidVars>>

\* ================================================================== Spec
Next ==
    \/ GrubBegin
    \/ GrubScanMount
    \/ GrubScanProbe
    \/ GrubScanExhausted
    \/ GrubMountRoot
    \/ GrubMountBoot
    \/ GrubMountEfi
    \/ GrubStat
    \/ GrubRewrite
    \/ GrubInstall
    \/ GrubCleanup
    \/ GrubFinish
    \/ UuidBegin
    \/ UuidScanMount
    \/ UuidScanProbe
    \/ UuidScanFinally
    \/ UuidScanExhausted
    \/ UuidTranslateBoot
    \/ UuidTranslateRoot
    \/ UuidTranslateEfi
    \/ UuidSkipEfi
    \/ UuidFinish

Spec == Init /\ [][Next]_vars

\* ============================================================ properties
\* ---- reading the log
IsMountOk(e) == e.op = "mount" /\ e.ok

IsUnmount(e) == e.op = "unmount"

\* Position of partition p in the enumeration.
PosOf(p) == CHOOSE k \in DOMAIN parts : parts[k] = p

\* The unmount calls matching the successful mount at position k of the log:
\* those on the same partition after k and before its next successful mount.
MatchingUnmounts(k) ==
    {j \in (k + 1)..Len(log) :
        /\ IsUnmount(log[j])
        /\ log[j].part = log[k].part
        /\ \A m \in (k + 1)..(j - 1) :
              ~(IsMountOk(log[m]) /\ log[m].part = log[k].part)}

\* No call on the device, the file system or the installer has failed.
AllCallsOk == \A k \in DOMAIN log : log[k].op # "exists" => log[k].ok

\* The partitions this invocation has mounted.
MountedByInvocation == {log[k].part : k \in {j \in DOMAIN log : IsMountOk(log[j])}}

SetupPhases == {"root", "boot", "efi"}

Ended == pc = "done"

\* ---- C1
\* C1: when an invocation of GrubPlugin.install_bootloader has ended, every
\* mount it made has exactly one matching unmount_partition call and no
\* partition it mounted is still mounted.  Stated for the invocations in
\* which no call fails, where an unmount that is called does unmount.
C1_MountUnmountBalance ==
    (plugin = "grub" /\ Ended /\ AllCallsOk) =>
        /\ \A k \in DOMAIN log :
              IsMountOk(log[k]) => Cardinality(MatchingUnmounts(k)) = 1
        /\ \A p \in MountedByInvocation : mnt[p] = NoMount

\* ---- C2
CleanupUnmountSteps == {"unmount_" \o CleanupOrder[k] : k \in DOMAIN CleanupOrder}

\* The finally block of GrubPlugin has been entered.
CleanupEntered == cleanup_pos > 0

\* C2: a DeviceError of an unmount in the cleanup of GrubPlugin is never the
\* exception the caller gets, and every partition whose flag is set has had
\* its cleanup unmount attempted when the invocation ends.
C2_CleanupUnmountNotRaised ==
    (plugin = "grub" /\ Ended /\ CleanupEntered) =>
        /\ exc.at \notin CleanupUnmountSteps
        /\ \A w \in {"efi", "boot", "root"} :
              CleanupFlag(w) =>
                 \E k \in DOMAIN log : IsUnmount(log[k]) /\ log[k].phase = w

\* ---- C3
\* C3: GrubPlugin never calls unmount_partition on a partition that was
\* mounted when the invocation began, and such a partition has its initial
\* mount point when the invocation has ended.
C3_PreMountedUntouched ==
    plugin = "grub" =>
        \A p \in PartSet :
            mnt0[p] # NoMount =>
               /\ \A k \in DOMAIN log : ~(IsUnmount(log[k]) /\ log[k].part = p)
               /\ Ended => mnt[p] = mnt0[p]

\* ---- C4
\* The name of the step a logged call belongs to, as exceptions carry it.
StepOf(e) == IF e.op = "mount" THEN "mount_" \o e.phase ELSE e.op

\* The failed calls of the committed phase (the try block of GrubPlugin).
FailedCommitted ==
    {k \in DOMAIN log :
        /\ ~log[k].ok
        /\ log[k].op \in {"mount", "makedirs", "stat", "rewrite", "install"}
        /\ log[k].phase \in SetupPhases \cup {"config", "install"}}

\* C4: when a step of the committed phase of GrubPlugin has failed and the
\* invocation has ended, the caller has the exception of that step and every
\* partition whose flag is set has had its unmount called.
C4_FailedStepCleanedUp ==
    (plugin = "grub" /\ Ended) =>
        \A k \in FailedCommitted :
            /\ result = "raised"
            /\ exc.at = StepOf(log[k])
            /\ \A w \in {"efi", "boot", "root"} :
                  CleanupFlag(w) =>
                     \E j \in DOMAIN log : IsUnmount(log[j]) /\ log[j].phase = w

\* ---- C5
\* Place of a mount of the tree in the order root, boot, EFI; the mount of a
\* root partition by the scan counts as the root's.
MountRank(e) ==
    CASE e.phase \in {"scan", "root"} -> 1
      [] e.phase = "boot" -> 2
      [] e.phase = "efi" -> 3

IsCleanupUnmount(e) == IsUnmount(e) /\ e.phase \in SetupPhases

IsTreeMount(e) == e.op = "mount" /\ e.phase \in SetupPhases \cup {"scan"}

\* C5: in GrubPlugin the mounts are made in the order root, boot, EFI and the
\* cleanup unmounts in the order EFI, boot, root, after all the mounts.
C5_CleanupReverseOrder ==
    plugin = "grub" =>
        LET mounts == {k \in DOMAIN log : IsTreeMount(log[k])}
            setup == {k \in mounts : log[k].phase \in SetupPhases}
            unmounts == {k \in DOMAIN log : IsCleanupUnmount(log[k])}
        IN
        /\ \A j \in mounts, k \in setup :
              j < k => MountRank(log[j]) < MountRank(log[k])
        /\ \A j, k \in unmounts :
              j < k => MountRank(log[j]) > MountRank(log[k])
        /\ \A j \in unmounts, k \in mounts : k < j

\* Root, boot and EFI partition were all mounted by the invocation and all
\* three have been unmounted in the cleanup.
C5_Witness ==
    /\ plugin = "grub"
    /\ Ended
    /\ result = "returned"
    /\ \A w \in SetupPhases :
          /\ \E k \in DOMAIN log : IsMountOk(log[k]) /\ log[k].phase = w
          /\ \E k \in DOMAIN log : IsCleanupUnmount(log[k]) /\ log[k].phase = w
                                      /\ log[k].ok

\* ---- C6
\* The scan of GrubPlugin has just selected a partition.
GrubScanSelected ==
    plugin = "grub" /\ root_arg = None /\ pc = "mount_root"

\* Candidate p was mounted by the scan.
ScanMounted(p) ==
    \E k \in DOMAIN log :
        IsMountOk(log[k]) /\ log[k].phase = "scan" /\ log[k].part = p

\* The scan called unmount_partition on candidate p.
ScanUnmountCalls(p) ==
    {k \in DOMAIN log :
        IsUnmount(log[k]) /\ log[k].phase = "scan" /\ log[k].part = p}

\* What C6 and its amendment share: the calls are made in enumeration order,
\* the selected partition holds the marker and is mounted, every earlier
\* partition holding the marker could not be mounted, and no call is made
\* for a partition after the selected one.
ScanFirstMatch ==
    /\ \A j, k \in DOMAIN log : j < k => PosOf(log[j].part) <= PosOf(log[k].part)
    /\ root_partition = parts[idx]
    /\ hasMarker[root_partition]
    /\ mnt[root_partition] # NoMount
    /\ \A j \in 1..(idx - 1) :
          hasMarker[parts[j]] =>
             \E k \in DOMAIN log :
                 log[k].op = "mount" /\ log[k].part = parts[j] /\ ~log[k].ok
    /\ \A k \in DOMAIN log : PosOf(log[k].part) <= idx

\* C6 as stated: when the scan of GrubPlugin selects a partition, it is the
\* first one in enumeration order whose mount holds boot/grub, every earlier
\* candidate the scan mounted is unmounted, the selected one is mounted and
\* no later partition has been touched.
C6_ScanFirstMatchAllReleased ==
    GrubScanSelected =>
        /\ ScanFirstMatch
        /\ \A j \in 1..(idx - 1) :
              ScanMounted(parts[j]) => mnt[parts[j]] = NoMount

\* C6 as amended: an earlier candidate the scan mounted has had exactly one
\* unmount_partition call, and is unmounted unless that call raised
\* DeviceError, in which case it is still mounted at target_mnt.
C6_ScanFirstMatch ==
    GrubScanSelected =>
        /\ ScanFirstMatch
        /\ \A j \in 1..(idx - 1) :
              ScanMounted(parts[j]) =>
                 /\ Cardinality(ScanUnmountCalls(parts[j])) = 1
                 /\ \A k \in ScanUnmountCalls(parts[j]) :
                       mnt[parts[j]] = IF log[k].ok THEN NoMount ELSE target_mnt

\* Partitions [1, 2, 3]: the scan mounted and unmounted 1, selected 2 and
\* has not touched 3.
C6_Witness ==
    /\ GrubScanSelected
    /\ Len(parts) = 3
    /\ root_partition = 2
    /\ ScanMounted(1)
    /\ mnt[1] = NoMount
    /\ mnt[2] = target_mnt
    /\ hasMarker[3]

\* ---- C7
\* root_partition is not supplied and no partition holds boot/grub.
GrubNoMarker ==
    /\ plugin = "grub"
    /\ root_arg = None
    /\ \A j \in DOMAIN parts : ~hasMarker[parts[j]]

\* The partitions the scan has probed.
Probed == {log[k].part : k \in {j \in DOMAIN log : log[j].phase = "scan"}}

\* What C7 and its amendment share: no step of the committed phase is taken
\* and the invocation ends by CopyError naming the target device.
ScanFailsWithCopyError ==
    /\ pc \in {"start", "scan", "probe", "done"}
    /\ \A k \in DOMAIN log : log[k].phase = "scan"
    /\ installs = 0
    /\ cfg = "source"
    /\ grub_command = <<>>
    /\ Ended =>
          /\ result = "raised"
          /\ exc.type = "CopyError"
          /\ exc.device = Device

\* C7 as stated: without root_partition and without a partition holding
\* boot/grub, GrubPlugin raises CopyError naming the device, takes no step of
\* the committed phase, and every probed partition is unmounted at the end.
C7_NoMarkerAllUnmounted ==
    GrubNoMarker =>
        /\ ScanFailsWithCopyError
        /\ Ended => \A p \in Probed : mnt[p] = NoMount

\* C7 as amended: at the end every probed partition that was mounted has had
\* unmount_partition called once, and is unmounted unless that call raised
\* DeviceError.
C7_NoMarkerCopyError ==
    GrubNoMarker =>
        /\ ScanFailsWithCopyError
        /\ Ended =>
              \A p \in Probed :
                  \/ /\ ScanUnmountCalls(p) = {}
                     /\ mnt[p] = NoMount
                     /\ mnt0[p] = NoMount
                  \/ /\ Cardinality(ScanUnmountCalls(p)) = 1
                     /\ \A k \in ScanUnmountCalls(p) :
                           log[k].ok <=> mnt[p] = NoMount

\* Three partitions without marker were probed, the first two mounted by the
\* scan and unmounted again, and the invocation has ended by CopyError.
C7_Witness ==
    /\ GrubNoMarker
    /\ Ended
    /\ Len(parts) = 3
    /\ exc.type = "CopyError"
    /\ ScanMounted(1) /\ ScanMounted(2)
    /\ Probed = {1, 2, 3}
    /\ \A p \in Probed : mnt[p] = NoMount

\* ---- C8
\* This step made a call of the scan on the device that raised DeviceError.
ScanCallFails ==
    /\ Len(log') > Len(log)
    /\ log'[Len(log')].phase = "scan"
    /\ log'[Len(log')].op \in {"mount", "unmount"}
    /\ ~log'[Len(log')].ok

\* C8: a step of the scan of either plugin in which a call on the device
\* for candidate i raises DeviceError leaves no exception in flight and the
\* invocation running, and takes the scan to the next partition in
\* enumeration order: at once in GrubPlugin, through the finally clause,
\* which has nothing to release, in UUIDPlugin.
C8_ScanDeviceErrorCaught ==
    [][/\ ScanCallFails =>
             /\ result' = "running"
             /\ exc' = NoExc
             /\ root_partition' = root_partition
             /\ \/ pc' = "scan" /\ idx' = idx + 1
                \/ /\ plugin = "uuid"
                   /\ pc' = "scan_finally"
                   /\ idx' = idx
                   /\ ~mounted_here'
                   /\ ~breaking'
       /\ (pc = "scan_finally" /\ ~mounted_here /\ ~breaking) =>
             /\ result' = "running"
             /\ exc' = NoExc
             /\ pc' = "scan"
             /\ idx' = idx + 1
      ]_vars

\* The mount of candidate 1 raised DeviceError and the scan has gone on to
\* mount candidate 2.
C8_Witness ==
    /\ Len(log) >= 2
    /\ log[1] = Event("mount", 1, "scan", FALSE)
    /\ log[2].op = "mount"
    /\ log[2].part = 2
    /\ log[2].phase = "scan"
    /\ result = "running"

\* ---- C9
\* C9: in the scan of UUIDPlugin the invocation never raises from the
\* release step of a probe, and once the loop body of a candidate is left,
\* every mount the scan made has an unmount call after it.
C9_ProbeReleased ==
    plugin = "uuid" =>
        /\ exc.at # "scan_finally"
        /\ pc \notin {"probe", "scan_finally"} =>
              \A k \in DOMAIN log :
                  (IsMountOk(log[k]) /\ log[k].phase = "scan")
                     => MatchingUnmounts(k) # {}

\* ---- C10
\* The invocation has mounted p and not unmounted it since.
HeldByInvocation(p) ==
    \E k \in DOMAIN log :
        /\ IsMountOk(log[k])
        /\ log[k].part = p
        /\ \A j \in (k + 1)..Len(log) :
              ~(IsUnmount(log[j]) /\ log[j].ok /\ log[j].part = p)

\* C10: a step of the mount-tree setup of GrubPlugin calls mount_partition
\* only on a partition without mount point, and when the setup is complete
\* each flag is true exactly if the invocation mounted its partition.
C10_MountOnlyUnmounted ==
    [][plugin = "grub" =>
          /\ \A k \in (Len(log) + 1)..Len(log') :
                (log'[k].op = "mount" /\ log'[k].phase \in SetupPhases)
                   => mnt[log'[k].part] = NoMount
          /\ pc' = "stat" =>
                /\ mounted_here' <=> HeldByInvocation(root_partition)'
                /\ boot_mounted_here' <=>
                      (boot_partition # None /\ HeldByInvocation(boot_partition)')
                /\ efi_mounted_here' <=>
                      (efi_partition # None /\ HeldByInvocation(efi_partition)')
      ]_vars

\* ---------------------------------------------------------------- C11
InstallEvents == {k \in DOMAIN log : log[k].op = "install"}

\* C11: when the installer exits with a non-zero code the invocation raises
\* DeviceError for the target device with the captured output as its detail;
\* when it exits with code 0 no error is raised for the installer step.
\* Stated for the invocations whose cleanup unmounts did not raise.
C11_InstallerErrorReported ==
    (plugin = "grub" /\ Ended /\ exc.at \notin CleanupUnmountSteps) =>
        \A k \in InstallEvents :
            IF log[k].ok
            THEN exc.at # "install"
            ELSE /\ result = "raised"
                 /\ exc.type = "DeviceError"
                 /\ exc.device = Device
                 /\ Decode(install_output).ok
                 /\ exc.detail = Decode(install_output).text

\* ---------------------------------------------------------------- C12
\* The directory the root partition is mounted at for the installer: where
\* it was mounted before the call, otherwise target_mnt; written without a
\* trailing separator.
MountRoot ==
    LET m == IF mnt0[root_partition] # NoMount
             THEN mnt0[root_partition] ELSE target_mnt
    IN IF m[Len(m)] = "/" THEN SubSeq(m, 1, Len(m) - 1) ELSE m

HasArg(a) == \E k \in DOMAIN grub_command : grub_command[k] = a

EfiArgs ==
    {<<"--efi-directory=">> \o MountRoot \o <<"/", "boot/efi">>,
     <<"--target=x86_64-efi">>, <<"--removable">>}

\* C12: the installer's command has --boot-directory=<mount root>/boot and
\* --recheck; with an EFI partition it has also
\* --efi-directory=<mount root>/boot/efi, --target=x86_64-efi and
\* --removable and not the device path; without one it has --target=i386-pc
\* followed by the device path and no EFI flag.
C12_InstallerCommand ==
    (plugin = "grub" /\ installs > 0) =>
        /\ HasArg(<<"--boot-directory=">> \o MountRoot \o <<"/", "boot">>)
        /\ HasArg(<<"--recheck">>)
        /\ IF efi_partition # None
           THEN /\ \A a \in EfiArgs : HasArg(a)
                /\ ~HasArg(<<Device>>)
           ELSE /\ \E k \in 1..(Len(grub_command) - 1) :
                     /\ grub_command[k] = <<"--target=i386-pc">>
                     /\ grub_command[k + 1] = <<Device>>
                /\ \A k \in DOMAIN grub_command :
                     /\ grub_command[k][1] # "--efi-directory="
                     /\ grub_command[k] \notin EfiArgs

\* The installer ran with the EFI flags for a root partition that was
\* mounted before the call at a path written with a trailing separator.
C12_Witness ==
    /\ plugin = "grub"
    /\ installs > 0
    /\ efi_partition # None
    /\ mnt0[root_partition] = PreMount(root_partition, TRUE)

\* ---------------------------------------------------------------- C13
\* C13: the rewrite of grub.cfg leaves the permission bits of the file equal
\* to the value read before the rewrite, when it completes and when the
\* open/read/write phase raises midway.
C13_PermsRestored ==
    [][(plugin = "grub" /\ pc = "rewrite") =>
           (perms' = perms /\ perms' = PermBits(old_perms))]_vars

\* The write failed midway on a file that had the set-user-ID bit, which a
\* write can clear, and the file has the bit.
C13_Witness ==
    /\ plugin = "grub"
    /\ exc.at = "rewrite"
    /\ cfg = "partial"
    /\ perms = InitialPerms
    /\ perms % S_ISUID # perms

\* ---------------------------------------------------------------- C14
\* Calls the scan made: its mounts, tests, translations and unmounts.
ScanEvents == {k \in DOMAIN log : log[k].phase = "scan"}

\* The branch for the boot data has been taken and its first call made.
BranchTaken == pc \notin {"start", "translate_boot", "translate_root"}

\* C14: in UUIDPlugin a given boot_partition is translated at "/" without a
\* scan and without a translation of the root partition's /boot; with only
\* root_partition given the root partition is translated at "/boot"; the
\* scan runs only when neither is given.
C14_HintsDecideBranch ==
    plugin = "uuid" =>
        /\ boot_partition # None =>
              /\ ScanEvents = {}
              /\ pc # "translate_root"
              /\ \A k \in DOMAIN translated : translated[k].path # "/boot"
              /\ BranchTaken =>
                    /\ translated # <<>>
                    /\ translated[1] = Translation(boot_partition, "/")
        /\ (boot_partition = None /\ root_arg # None) =>
              /\ ScanEvents = {}
              /\ pc # "translate_boot"
              /\ BranchTaken =>
                    /\ translated # <<>>
                    /\ translated[1] = Translation(root_arg, "/boot")
        /\ (boot_partition = None /\ root_arg = None) =>
              /\ pc \notin {"translate_boot", "translate_root"}
              /\ pc # "start" => idx >= 1
              /\ \A k \in DOMAIN translated :
                    translated[k].path = "/boot" =>
                        \E j \in ScanEvents :
                            /\ log[j] = Event("exists", translated[k].part,
                                              "scan", TRUE)
        /\ (ScanEvents # {} \/ pc \in {"scan", "probe", "scan_finally"}) =>
              (boot_partition = None /\ root_arg = None)

\* Both hints were given and the invocation returned after translating the
\* boot partition.
C14_Witness ==
    /\ plugin = "uuid"
    /\ boot_partition # None
    /\ root_arg # None
    /\ Ended
    /\ result = "returned"
    /\ translated[1] = Translation(boot_partition, "/")

\* ---------------------------------------------------------------- C15
\* Calls of translate_uuid made by the scan of UUIDPlugin.
ScanTranslations == {k \in ScanEvents : log[k].op = "translate"}

\* C15: the scan of UUIDPlugin translates only the first partition, in
\* enumeration order, that holds the boot marker: translate_uuid is called
\* at most once by the scan, on a partition no earlier candidate of which
\* held the marker, and after a successful translation no later partition
\* is mounted, tested or translated.
C15_ScanTranslatesOnce ==
    plugin = "uuid" =>
        /\ Cardinality(ScanTranslations) <= 1
        /\ \A k \in ScanTranslations :
              /\ \A j \in ScanEvents :
                    (j < k /\ log[j].op = "exists" /\ log[j].ok) =>
                        log[j].part = log[k].part
              /\ log[k].ok =>
                    \A j \in ScanEvents :
                        j > k => /\ log[j].op = "unmount"
                                 /\ log[j].part = log[k].part

\* ---------------------------------------------------------------- C16
\* Calls of translate_uuid on the whole of the EFI partition.
EfiTranslations ==
    {k \in DOMAIN translated : translated[k] = Translation(efi_partition, "/")}

\* C16 as stated: whenever efi_partition is given to UUIDPlugin, the EFI
\* partition is translated at "/" exactly once by the invocation.
C16_EfiTranslatedOnce ==
    (plugin = "uuid" /\ efi_partition # None /\ Ended) =>
        Cardinality(EfiTranslations) = 1

\* C16, amended: with efi_partition given, the EFI partition is translated
\* at "/" exactly once, after the boot data, when the branch for the boot
\* data ended without raising, whichever branch it was; when that branch
\* raised, the EFI partition is not translated.
C16_EfiTranslatedAfterBranch ==
    (plugin = "uuid" /\ efi_partition # None) =>
        /\ pc \in {"start", "scan", "probe", "scan_finally", "translate_boot",
                    "translate_root", "translate_efi"} => EfiTranslations = {}
        /\ pc = "finish" => EfiTranslations = {Len(translated)}
        /\ Ended =>
              IF result = "returned" \/ exc.at = "translate_efi"
              THEN EfiTranslations = {Len(translated)}
              ELSE EfiTranslations = {}

\* The scan handled the boot data and the EFI partition was translated.
C16_Witness ==
    /\ plugin = "uuid"
    /\ efi_partition # None
    /\ ScanTranslations # {}
    /\ Ended
    /\ result = "returned"
    /\ EfiTranslations = {Len(translated)}

\* ---------------------------------------------------------------- C17
\* C17: once the scan of UUIDPlugin has selected a candidate, a DeviceError
\* of its translation is fatal: the scan makes no call on a later partition,
\* and the invocation ends by raising that DeviceError, not the CopyError
\* for no partition found.  Stated for the invocations that do not end with
\* the AttributeError of the probe's release.
C17_ScanTranslateErrorFatal ==
    (plugin = "uuid" /\ exc.type # "AttributeError") =>
        \A k \in ScanTranslations :
            ~log[k].ok =>
                /\ pc \in {"scan_finally", "done"}
                /\ \A j \in ScanEvents :
                      j > k => /\ log[j].op = "unmount"
                               /\ log[j].part = log[k].part
                /\ Ended => /\ result = "raised"
                            /\ exc.type = "DeviceError"

\* ---------------------------------------------------------------- C18
\* The scan of GrubPlugin is running or has just selected a partition.
InGrubScan ==
    plugin = "grub" /\ root_arg = None /\ pc \in {"scan", "probe", "mount_root"}

\* Partitions the invocation mounted that are mounted at target_mnt.
AtTargetMnt == {p \in MountedByInvocation : mnt[p] = target_mnt}

\* Candidates whose unmount by the scan raised DeviceError.
ScanUnmountFailed ==
    {p \in PartSet : \E k \in ScanUnmountCalls(p) : ~log[k].ok}

\* C18 as stated: during the scan of GrubPlugin at most one partition
\* mounted by the invocation is mounted at target_mnt, also when an unmount
\* of a probed partition fails.
C18_OneProbeMounted ==
    InGrubScan => Cardinality(AtTargetMnt) <= 1

\* C18, amended: the probes of the scan do not overlap in time, the calls
\* for one candidate all come before the calls for the next, and a
\* candidate the scan mounted has had unmount_partition called on it before
\* the next one is mounted; the partitions mounted at target_mnt by the
\* invocation are the candidate being probed and the candidates whose
\* unmount raised DeviceError.
C18_ProbesSequential ==
    InGrubScan =>
        /\ \A j, k \in ScanEvents :
              j < k => PosOf(log[j].part) <= PosOf(log[k].part)
        /\ \A j, k \in ScanEvents :
              (j < k /\ IsMountOk(log[j]) /\ log[k].op = "mount") =>
                  \E u \in ScanUnmountCalls(log[j].part) : j < u /\ u < k
        /\ \A p \in AtTargetMnt :
              \/ pc # "scan" /\ p = parts[idx]
              \/ p \in ScanUnmountFailed
        /\ ScanUnmountFailed = {} => Cardinality(AtTargetMnt) <= 1

\* A candidate was mounted and unmounted again and the next candidate is
\* mounted at target_mnt, alone.
C18_Witness ==
    /\ InGrubScan
    /\ pc = "probe"
    /\ AtTargetMnt = {parts[idx]}
    /\ \E p \in PartSet :
          /\ p # parts[idx]
          /\ ScanMounted(p)
          /\ mnt[p] = NoMount

\* ---------------------------------------------------------------- C19
\* The calls of the committed phase of GrubPlugin, cleanup apart.
Committed ==
    {k \in DOMAIN log :
        /\ log[k].op \in {"mount", "makedirs", "stat", "rewrite", "install"}
        /\ log[k].phase \in SetupPhases \cup {"config", "install"}}

\* Place of a call of the committed phase in the order of the code.
StepRank(e) ==
    CASE e.op = "mount" /\ e.phase = "root" -> 1
      [] e.op = "mount" /\ e.phase = "boot" -> 2
      [] e.op = "makedirs" -> 3
      [] e.op = "mount" /\ e.phase = "efi" -> 4
      [] e.op = "stat" -> 5
      [] e.op = "rewrite" -> 6
      [] e.op = "install" -> 7

\* Partition p was mounted when the call at position k of the log was made:
\* before the invocation, or by a mount the invocation made before k.
MountedBefore(p, k) ==
    \/ mnt0[p] # NoMount
    \/ \E j \in 1..(k - 1) : IsMountOk(log[j]) /\ log[j].part = p

\* C19: the committed phase of GrubPlugin is one forward pass: the installer
\* is started at most once, after the root partition and the given boot and
\* EFI partitions are mounted and the rewrite of grub.cfg completed without
\* error; no mount, rewrite or installer step is made twice; and a cleanup
\* unmount comes only after the installer step or a failed step.
C19_SingleForwardPass ==
    plugin = "grub" =>
        LET committed == Committed
            installed == {k \in committed : log[k].op = "install"}
            cleanups == {u \in DOMAIN log : IsCleanupUnmount(log[u])}
        IN
        /\ installs <= 1
        /\ Cardinality(installed) = installs
        /\ \A k \in installed :
              /\ \A j \in committed : j < k => log[j].ok
              /\ \E j \in committed :
                    j < k /\ log[j] = Event("rewrite", None, "config", TRUE)
              /\ MountedBefore(root_partition, k)
              /\ boot_partition # None => MountedBefore(boot_partition, k)
              /\ efi_partition # None => MountedBefore(efi_partition, k)
              /\ \A u \in cleanups : u > k
        /\ \A j, k \in committed :
              j < k => StepRank(log[j]) < StepRank(log[k])
        /\ \A u \in cleanups :
              \E j \in committed :
                  j < u /\ (log[j].op = "install" \/ ~log[j].ok)

\* An invocation with boot and EFI partitions ran the installer and
\* returned.
C19_Witness ==
    /\ plugin = "grub"
    /\ boot_partition # None
    /\ efi_partition # None
    /\ installs = 1
    /\ Ended
    /\ result = "returned"
====
